---- MODULE Spec2Model ----
(***************************************************************************)
(* The math utilities (factorial, is_prime, power) of                      *)
(* zzArchive/test_c_program/math_utils.c and the calculator of             *)
(* test_c_program/main.c, as state machines.                               *)
(*                                                                         *)
(* The math utilities are a library: a caller calls one function at a      *)
(* time, the function runs statement by statement, and returns.  The       *)
(* calculator is a program of its own (it does not call the library).      *)
(*                                                                         *)
(* C's int is modelled at a width of IntBits bits.  A signed overflow is   *)
(* undefined behaviour: what it does is fixed by the build, and the model  *)
(* draws the build in Init (overflow): "wrap" (two's complement, as with   *)
(* -fwrapv or the plain machine instruction) or "trap" (the program is     *)
(* aborted at the overflow, as with -ftrapv).                              *)
(***************************************************************************)
EXTENDS Integers, Sequences, FiniteSets

\* ------------------------------------------------------------- bounds
\* Width of int in bits (the program's int is 32 bits wide).
IntBits == 13
\* Arguments of factorial are drawn from -MaxFactN..MaxFactN.
MaxFactN == 8
\* Arguments of power: base in -MaxBase..MaxBase, exponent in -MaxExp..MaxExp.
MaxBase == 3
MaxExp == 12
\* Arguments of is_prime in the specification SpecFrame (Spec draws every int).
MaxFrameN == 20
\* Menu choices are drawn from -MaxChoice..MaxChoice, operands from
\* -MaxOperand..MaxOperand.
MaxChoice == 7
MaxOperand == 2

VARIABLES
    overflow,   \* what a signed overflow does in this build: "wrap" or "trap"
    fn,         \* math library: the function called ("none" before any call)
    pc,         \* math library: position in the function's code
    locals,     \* math library: parameters and locals of the running frame
    stack,      \* math library: the suspended frames of factorial's recursion
    ret,        \* math library: the value returned (0 while a call runs)
    hist,       \* an earlier finished call the caller remembers (at most one)
    mpc,        \* calculator: position in main
    choice,     \* calculator: main's choice
    num1,       \* calculator: main's num1
    num2,       \* calculator: main's num2
    log,        \* calculator: what this pass of the loop did, in order
    ires,       \* calculator: the int result last printed
    fres        \* calculator: the float result last printed

mathVars == <<fn, pc, locals, stack, ret>>
calcVars == <<mpc, choice, num1, num2, log, ires, fres>>
vars == <<overflow, fn, pc, locals, stack, ret, hist,
          mpc, choice, num1, num2, log, ires, fres>>

\* ---------------------------------------------------------------- int
MaxInt == 2^(IntBits - 1) - 1
MinInt == -(2^(IntBits - 1))

\* A mathematical result that does not fit int.
Overflows(x) == x < MinInt \/ x > MaxInt

\* The int a two's complement machine keeps of x.
Wrap(x) ==
    LET m == x % (2^IntBits)
    IN  IF m > MaxInt THEN m - 2^IntBits ELSE m

Abs(x) == IF x < 0 THEN -x ELSE x

\* C's a % b (the quotient truncates toward zero), b # 0.
CRem(a, b) ==
    LET r == Abs(a) % Abs(b)
    IN  IF a < 0 THEN -r ELSE r

\* C's a / b on ints (truncates toward zero), b # 0.
CDiv(a, b) ==
    LET q == Abs(a) \div Abs(b)
    IN  IF (a < 0) = (b < 0) THEN q ELSE -q

NoLocals == [k \in {} |-> 0]

\* The calculator is not running.
CalcOff ==
    /\ mpc = "off"
    /\ choice = 0
    /\ num1 = 0
    /\ num2 = 0
    /\ log = <<>>
    /\ ires = 0
    /\ fres = [num |-> 0, den |-> 1]   \* 0.0

\* No call of the math library is running.
MathIdle ==
    /\ fn = "none"
    /\ pc = "idle"
    /\ locals = NoLocals
    /\ stack = <<>>
    /\ ret = 0
    /\ hist = {}

\* The program is aborted at a signed overflow.
Trap ==
    /\ pc' = "trap"
    /\ UNCHANGED <<fn, locals, stack, ret>>

\* return v; from is_prime or power.
Return(v) ==
    /\ ret' = v
    /\ pc' = "done"
    /\ UNCHANGED <<fn, locals, stack>>

\* ---------------------------------------------------------- factorial
\* if (n <= 1)
FactorialBaseCase(n) == n <= 1

\* A sum where the code has a product.
FactorialStepSum(n, r) == n + r

\* n * factorial(n - 1), before it is stored in an int
FactorialStep(n, r) == n * r

\* A caller calls factorial(n).
FactorialCall(S) ==
    /\ pc = "idle"
    /\ \E n \in S :
        /\ fn' = "factorial"
        /\ pc' = "f_test"
        /\ locals' = [n |-> n]
        /\ stack' = <<>>
        /\ ret' = 0
    /\ UNCHANGED <<overflow, hist>>
    /\ UNCHANGED calcVars

\* The running frame tests n <= 1: it returns 1, or suspends at line 9 and
\* calls factorial(n - 1) (n > 1 there, so n - 1 fits int).
FactorialTest ==
    /\ fn = "factorial"
    /\ pc = "f_test"
    /\ IF FactorialBaseCase(locals.n)
       THEN /\ ret' = 1
            /\ pc' = "f_return"
            /\ UNCHANGED <<fn, locals, stack>>
       ELSE /\ stack' = Append(stack, locals)
            /\ locals' = [n |-> locals.n - 1]
            /\ pc' = "f_test"
            /\ UNCHANGED <<fn, ret>>
    /\ UNCHANGED <<overflow, hist>>
    /\ UNCHANGED calcVars

\* The running frame returns ret: to the library's caller, or to the frame
\* suspended at line 9, which multiplies it by its n and returns in turn.
FactorialReturn ==
    /\ fn = "factorial"
    /\ pc = "f_return"
    /\ IF stack = <<>>
       THEN /\ pc' = "done"
            /\ UNCHANGED <<fn, locals, stack, ret>>
       ELSE LET caller == stack[Len(stack)]
                p == FactorialStep(caller.n, ret)
            IN  IF Overflows(p) /\ overflow = "trap"
                THEN Trap
                ELSE /\ ret' = Wrap(p)
                     /\ locals' = caller
                     /\ stack' = SubSeq(stack, 1, Len(stack) - 1)
                     /\ pc' = "f_return"
                     /\ UNCHANGED fn
    /\ UNCHANGED <<overflow, hist>>
    /\ UNCHANGED calcVars

\* ----------------------------------------------------------- is_prime
\* A first test that lets 1 through.
IsPrimeSmallNonPositive(n) == n <= 0

\* if (n <= 1)
IsPrimeSmall(n) == n <= 1

\* A caller calls is_prime(n).
IsPrimeCall(S) ==
    /\ pc = "idle"
    /\ \E n \in S :
        /\ fn' = "is_prime"
        /\ pc' = "p_entry"
        /\ locals' = [n |-> n]
        /\ stack' = <<>>
        /\ ret' = 0
    /\ UNCHANGED <<overflow, hist>>
    /\ UNCHANGED calcVars

\* Lines 14-22, and the loop's int i = 3.
IsPrimeEntry ==
    /\ fn = "is_prime"
    /\ pc = "p_entry"
    /\ IF IsPrimeSmall(locals.n)
       THEN Return(0)
       ELSE IF locals.n = 2
       THEN Return(1)
       ELSE IF CRem(locals.n, 2) = 0
       THEN Return(0)
       ELSE /\ locals' = [n |-> locals.n, i |-> 3]
            /\ pc' = "p_test"
            /\ UNCHANGED <<fn, stack, ret>>
    /\ UNCHANGED <<overflow, hist>>
    /\ UNCHANGED calcVars

\* The loop condition i * i <= n: the product is an int.
IsPrimeLoopTest ==
    /\ fn = "is_prime"
    /\ pc = "p_test"
    /\ LET sq == locals.i * locals.i
       IN  IF Overflows(sq) /\ overflow = "trap"
           THEN Trap
           ELSE IF Wrap(sq) <= locals.n
           THEN /\ pc' = "p_body"
                /\ UNCHANGED <<fn, locals, stack, ret>>
           ELSE Return(1)
    /\ UNCHANGED <<overflow, hist>>
    /\ UNCHANGED calcVars

\* The loop body if (n % i == 0) return 0; and the step i += 2.
IsPrimeLoopBody ==
    /\ fn = "is_prime"
    /\ pc = "p_body"
    /\ IF CRem(locals.n, locals.i) = 0
       THEN Return(0)
       ELSE LET next == locals.i + 2
            IN  IF Overflows(next) /\ overflow = "trap"
                THEN Trap
                ELSE /\ locals' = [locals EXCEPT !.i = Wrap(next)]
                     /\ pc' = "p_test"
                     /\ UNCHANGED <<fn, stack, ret>>
    /\ UNCHANGED <<overflow, hist>>
    /\ UNCHANGED calcVars

\* -------------------------------------------------------------- power
\* A static accumulator: it starts from what an earlier call of power left.
PowerResultStatic ==
    IF \E h \in hist : h.fn = "power"
    THEN (CHOOSE h \in hist : h.fn = "power").ret
    ELSE 1

\* int result = 1;
PowerResultInit == 1

\* A loop that runs once more.
PowerLoopCondInclusive(i, exponent) == i <= exponent

\* A loop that runs |exponent| times.
PowerLoopCondMagnitude(i, exponent) == i < Abs(exponent)

\* i < exponent
PowerLoopCond(i, exponent) == i < exponent

\* A caller calls power(base, exponent).
PowerCall(B, E) ==
    /\ pc = "idle"
    /\ \E b \in B, e \in E :
        /\ fn' = "power"
        /\ pc' = "w_init"
        /\ locals' = [base |-> b, exponent |-> e]
        /\ stack' = <<>>
        /\ ret' = 0
    /\ UNCHANGED <<overflow, hist>>
    /\ UNCHANGED calcVars

\* int result = 1; and the loop's int i = 0.
PowerInit ==
    /\ fn = "power"
    /\ pc = "w_init"
    /\ locals' = [base |-> locals.base, exponent |-> locals.exponent,
                  result |-> PowerResultInit, i |-> 0]
    /\ pc' = "w_test"
    /\ UNCHANGED <<fn, stack, ret>>
    /\ UNCHANGED <<overflow, hist>>
    /\ UNCHANGED calcVars

\* The loop condition i < exponent; return result; when it is false.
PowerLoopTest ==
    /\ fn = "power"
    /\ pc = "w_test"
    /\ IF PowerLoopCond(locals.i, locals.exponent)
       THEN /\ pc' = "w_body"
            /\ UNCHANGED <<fn, locals, stack, ret>>
       ELSE Return(locals.result)
    /\ UNCHANGED <<overflow, hist>>
    /\ UNCHANGED calcVars

\* The loop body result *= base; and the step i++.
PowerLoopBody ==
    /\ fn = "power"
    /\ pc = "w_body"
    /\ LET p == locals.result * locals.base
           next == locals.i + 1
       IN  IF (Overflows(p) \/ Overflows(next)) /\ overflow = "trap"
           THEN Trap
           ELSE /\ locals' = [locals EXCEPT !.result = Wrap(p), !.i = Wrap(next)]
                /\ pc' = "w_test"
                /\ UNCHANGED <<fn, stack, ret>>
    /\ UNCHANGED <<overflow, hist>>
    /\ UNCHANGED calcVars

\* ------------------------------------------------------------ callers
\* The arguments of the call that runs or has returned.
CallArgs ==
    IF fn = "power"
    THEN <<locals.base, locals.exponent>>
    ELSE <<locals.n>>

\* The caller keeps the result of the call that has just returned, to
\* compare it with the result of a later call.
Remember ==
    /\ pc = "done"
    /\ hist' = {[fn |-> fn, args |-> CallArgs, ret |-> ret]}
    /\ UNCHANGED <<overflow, fn, pc, locals, stack, ret>>
    /\ UNCHANGED calcVars

\* The caller has used the result; the call's frame is gone.
Resume ==
    /\ pc = "done"
    /\ fn' = "none"
    /\ pc' = "idle"
    /\ locals' = NoLocals
    /\ stack' = <<>>
    /\ ret' = 0
    /\ UNCHANGED <<overflow, hist>>
    /\ UNCHANGED calcVars

FactArgs == (-MaxFactN)..MaxFactN
PrimeArgs == MinInt..MaxInt
FramePrimeArgs == ((-MaxFrameN)..MaxFrameN) \cup {MaxInt - 4, MaxInt - 2, MaxInt}
PowerBases == (-MaxBase)..MaxBase
PowerExps == (-MaxExp)..MaxExp

\* One statement of the running call.
MathStep ==
    \/ FactorialTest
    \/ FactorialReturn
    \/ IsPrimeEntry
    \/ IsPrimeLoopTest
    \/ IsPrimeLoopBody
    \/ PowerInit
    \/ PowerLoopTest
    \/ PowerLoopBody

InitMath ==
    /\ overflow \in {"wrap", "trap"}
    /\ MathIdle
    /\ CalcOff

Next ==
    \/ FactorialCall(FactArgs)
    \/ IsPrimeCall(PrimeArgs)
    \/ PowerCall(PowerBases, PowerExps)
    \/ MathStep
    \/ Resume

\* The math library called with any arguments, any number of times.
Spec == InitMath /\ [][Next]_vars

NextFrame ==
    \/ FactorialCall(FactArgs)
    \/ IsPrimeCall(FramePrimeArgs)
    \/ PowerCall(PowerBases, PowerExps)
    \/ MathStep
    \/ Remember
    \/ Resume

\* The same, with a caller that remembers the result of an earlier call.
SpecFrame == InitMath /\ [][NextFrame]_vars

\* --------------------------------------------------------- calculator
OpEvents == {"add", "subtract", "multiply", "divide"}
ScanEvents == {"scan_num1", "scan_num2"}

\* A float, kept as the rational number it is the nearest float to: num/den
\* in lowest terms, den > 0.  (float)a is exact at the widths modelled.
RECURSIVE Gcd(_, _)
Gcd(a, b) == IF b = 0 THEN a ELSE Gcd(b, a % b)

FloatZero == [num |-> 0, den |-> 1]

\* (float)a / b, b # 0
FloatQuotient(a, b) ==
    LET g == Gcd(Abs(a), Abs(b))
        s == IF b < 0 THEN -1 ELSE 1
    IN  [num |-> (s * a) \div g, den |-> (s * b) \div g]

\* The division is done on the ints: the cast is missing.
DivideTruncating(a, b) ==
    IF b = 0
    THEN [value |-> FloatZero, events |-> <<"div_error">>]
    ELSE [value |-> [num |-> CDiv(a, b), den |-> 1], events |-> <<"fdiv">>]

\* divide(a, b): the value returned and what the call did ("div_error": the
\* message "Error: Division by zero!" is printed; "fdiv": a division is done).
Divide(a, b) ==
    IF b = 0
    THEN [value |-> FloatZero, events |-> <<"div_error">>]
    ELSE [value |-> FloatQuotient(a, b), events |-> <<"fdiv">>]

\* add, subtract, multiply: the mathematical result, before it is an int
Add(a, b) == a + b
Subtract(a, b) == a - b
Multiply(a, b) == a * b

\* if (choice == 5)
IsExitChoice(c) == c = 5

\* A range check that lets 0 through.
InvalidChoiceFromZero(c) == c < 0 \/ c > 5

\* if (choice < 1 || choice > 5)
InvalidChoice(c) == c < 1 \/ c > 5

Choices == (-MaxChoice)..MaxChoice
Operands == (-MaxOperand)..MaxOperand

\* print_menu(): a pass of the loop begins.
PrintMenu ==
    /\ mpc = "menu"
    /\ log' = <<"print_menu">>
    /\ mpc' = "get_op"
    /\ UNCHANGED <<choice, num1, num2, ires, fres>>
    /\ UNCHANGED <<overflow, hist>>
    /\ UNCHANGED mathVars

\* choice = get_operation(): the number scanf reads, or, when scanf reads no
\* number, the indeterminate value of get_operation's uninitialized local.
GetOperation ==
    /\ mpc = "get_op"
    /\ \E c \in Choices : choice' = c
    /\ log' = Append(log, "get_operation")
    /\ mpc' = "check_exit"
    /\ UNCHANGED <<num1, num2, ires, fres>>
    /\ UNCHANGED <<overflow, hist>>
    /\ UNCHANGED mathVars

\* if (choice == 5) { printf(...); break; } and main's return 0.
CheckExit ==
    /\ mpc = "check_exit"
    /\ IF IsExitChoice(choice)
       THEN /\ log' = Append(log, "goodbye")
            /\ mpc' = "exited"
       ELSE /\ mpc' = "validate"
            /\ UNCHANGED log
    /\ UNCHANGED <<choice, num1, num2, ires, fres>>
    /\ UNCHANGED <<overflow, hist>>
    /\ UNCHANGED mathVars

\* if (choice < 1 || choice > 5) { printf(...); continue; }
Validate ==
    /\ mpc = "validate"
    /\ IF InvalidChoice(choice)
       THEN /\ log' = Append(log, "invalid")
            /\ mpc' = "menu"
       ELSE /\ mpc' = "scan1"
            /\ UNCHANGED log
    /\ UNCHANGED <<choice, num1, num2, ires, fres>>
    /\ UNCHANGED <<overflow, hist>>
    /\ UNCHANGED mathVars

\* scanf("%d", &num1): the number read, or num1 left as it was (any int).
ScanNum1 ==
    /\ mpc = "scan1"
    /\ \E v \in Operands : num1' = v
    /\ log' = Append(log, "scan_num1")
    /\ mpc' = "scan2"
    /\ UNCHANGED <<choice, num2, ires, fres>>
    /\ UNCHANGED <<overflow, hist>>
    /\ UNCHANGED mathVars

\* scanf("%d", &num2)
ScanNum2 ==
    /\ mpc = "scan2"
    /\ \E v \in Operands : num2' = v
    /\ log' = Append(log, "scan_num2")
    /\ mpc' = "switch"
    /\ UNCHANGED <<choice, num1, ires, fres>>
    /\ UNCHANGED <<overflow, hist>>
    /\ UNCHANGED mathVars

\* An int operation's result is printed, or the program is aborted at its
\* signed overflow.
PrintInt(name, v) ==
    IF Overflows(v) /\ overflow = "trap"
    THEN /\ mpc' = "trap"
         /\ UNCHANGED <<log, ires, fres>>
    ELSE /\ ires' = Wrap(v)
         /\ log' = Append(log, name)
         /\ mpc' = "menu"
         /\ UNCHANGED fres

\* switch (choice): the case's call and printf; no case, nothing.
Switch ==
    /\ mpc = "switch"
    /\ CASE choice = 1 -> PrintInt("add", Add(num1, num2))
         [] choice = 2 -> PrintInt("subtract", Subtract(num1, num2))
         [] choice = 3 -> PrintInt("multiply", Multiply(num1, num2))
         [] choice = 4 ->
                LET d == Divide(num1, num2)
                IN  /\ fres' = d.value
                    /\ log' = Append(log, "divide") \o d.events
                    /\ mpc' = "menu"
                    /\ UNCHANGED ires
         [] OTHER -> /\ mpc' = "menu"
                     /\ UNCHANGED <<log, ires, fres>>
    /\ UNCHANGED <<choice, num1, num2>>
    /\ UNCHANGED <<overflow, hist>>
    /\ UNCHANGED mathVars

\* main has printed its welcome and is at the top of while (1); choice, num1
\* and num2 are uninitialized.
InitCalc ==
    /\ overflow \in {"wrap", "trap"}
    /\ MathIdle
    /\ mpc = "menu"
    /\ choice \in Choices
    /\ num1 \in Operands
    /\ num2 \in Operands
    /\ log = <<>>
    /\ ires = 0
    /\ fres = FloatZero

NextCalc ==
    \/ PrintMenu
    \/ GetOperation
    \/ CheckExit
    \/ Validate
    \/ ScanNum1
    \/ ScanNum2
    \/ Switch

\* The calculator, with any input.
SpecCalc == InitCalc /\ [][NextCalc]_vars

\* ------------------------------------------------- reference functions
\* The factorial of the specification: 1 for n <= 1, otherwise n times the
\* factorial of n - 1, as an int.
RECURSIVE FactRef(_)
FactRef(n) == IF n <= 1 THEN 1 ELSE Wrap(n * FactRef(n - 1))

\* The product of e factors b, starting from 1, as an int.
RECURSIVE PowRef(_, _)
PowRef(b, e) == IF e <= 0 THEN 1 ELSE Wrap(b * PowRef(b, e - 1))

\* No integer of [2, n-1] divides n.
BrutePrime(n) == \A d \in 2..(n - 1) : n % d # 0

\* A call of the function has returned to the library's caller.
Returned(f) == fn = f /\ pc = "done"

\* --------------------------------------------------------- properties
\* C1: for every n >= 2, is_prime(n) returns non-zero exactly when no
\* integer of [2, n-1] divides n.
C1_MatchesBruteForce ==
    (Returned("is_prime") /\ locals.n >= 2)
        => /\ ret \in {0, 1}
           /\ (ret = 1) <=> BrutePrime(locals.n)

\* C2: factorial returns 1 for every n <= 1, and for every n >= 1 the int
\* product of n and factorial(n - 1); factorial(0) = 1, factorial(1) = 1 and
\* factorial(5) = 120.  It is stated of every frame that returns, the
\* recursive calls included.
C2_Factorial ==
    (fn = "factorial" /\ pc \in {"f_return", "done"})
        => /\ locals.n <= 1 => ret = 1
           /\ locals.n >= 1 => ret = Wrap(locals.n * FactRef(locals.n - 1))
           /\ locals.n = 0 => ret = 1
           /\ locals.n = 1 => ret = 1
           /\ locals.n = 5 => ret = 120

\* factorial(7) has returned 7! as an int keeps it: the product overflowed.
C2_Witness ==
    /\ Returned("factorial")
    /\ locals.n = 7
    /\ ret = Wrap(5040)
    /\ ret # 5040

\* C3: for every base and every exponent >= 0, power returns the int product
\* of exactly exponent factors base, starting from 1; power(base, 0) = 1,
\* power(2, 10) = 1024 and power(3, 3) = 27.
C3_Power ==
    (fn = "power" /\ locals.exponent >= 0)
        => /\ pc \in {"w_test", "w_body"}
                => /\ locals.i <= locals.exponent
                   /\ locals.result = PowRef(locals.base, locals.i)
           /\ pc = "done"
                => /\ locals.i = locals.exponent
                   /\ ret = PowRef(locals.base, locals.exponent)
                   /\ locals.exponent = 0 => ret = 1
                   /\ (locals.base = 2 /\ locals.exponent = 10) => ret = 1024
                   /\ (locals.base = 3 /\ locals.exponent = 3) => ret = 27

\* power(2, 10) has returned 1024.
C3_Witness ==
    /\ Returned("power")
    /\ locals.base = 2
    /\ locals.exponent = 10
    /\ ret = 1024

\* C4: is_prime returns 0 for every n <= 1, 1 for n = 2 and 0 for every even
\* n > 2, and in none of these cases enters the loop (the loop's i is never
\* declared).
C4_EarlyReturns ==
    (fn = "is_prime" /\ (locals.n <= 2 \/ locals.n % 2 = 0))
        => /\ pc \in {"p_entry", "done"}
           /\ "i" \notin DOMAIN locals
           /\ pc = "done" => ret = (IF locals.n = 2 THEN 1 ELSE 0)

\* is_prime(18) has returned 0.
C4_Witness ==
    /\ Returned("is_prime")
    /\ locals.n = 18
    /\ ret = 0

\* C5: for every base and every exponent < 0, power never runs the loop
\* body, signals no error and returns 1.
C5_NegativeExponent ==
    (fn = "power" /\ locals.exponent < 0)
        => /\ pc \notin {"w_body", "trap"}
           /\ pc = "done"
                => /\ ret = 1
                   /\ locals.i = 0
                   /\ locals.result = 1

\* power(3, -2) has returned.
C5_Witness ==
    /\ Returned("power")
    /\ locals.base = 3
    /\ locals.exponent = -2

\* C6: for every argument, each call returns a value and reaches no error
\* state: a call that has not returned is not aborted and has a next step.
C6_Total ==
    pc \notin {"idle", "done"}
        => /\ pc # "trap"
           /\ ENABLED MathStep

C8_SquareFitsInt ==
    fn = "is_prime"
        => /\ pc = "p_test" => locals.i * locals.i <= MaxInt
           /\ pc = "p_body" => locals.i * locals.i <= locals.n

\* The choice of this pass of the loop has been read.
ChoiceRead == Len(log) >= 2

Count(E) == Cardinality({k \in 1..Len(log) : log[k] \in E})

OpName(c) ==
    CASE c = 1 -> "add"
      [] c = 2 -> "subtract"
      [] c = 3 -> "multiply"
      [] c = 4 -> "divide"
      [] OTHER -> "none"

\* C9: the calculator exits exactly when a choice of 5 is read; a choice of
\* 5 or outside 1..5 reads no operand and calls no operation; a choice in
\* 1..4 reads both operands and then calls the matching operation, once,
\* before the menu is shown again.
C9_MenuLoop ==
    /\ mpc = "exited" => (ChoiceRead /\ choice = 5)
    /\ (ChoiceRead /\ choice = 5) => mpc \in {"check_exit", "exited"}
    /\ (ChoiceRead /\ choice \notin 1..4)
            => (Count(ScanEvents) = 0 /\ Count(OpEvents) = 0)
    /\ (ChoiceRead /\ choice \in 1..4 /\ mpc = "menu")
            => /\ Len(log) >= 5
               /\ SubSeq(log, 3, 5) = <<"scan_num1", "scan_num2", OpName(choice)>>
               /\ Count(ScanEvents) = 2
               /\ Count(OpEvents) = 1

\* A choice of 3 made the calculator read both operands and call multiply.
C9_Witness ==
    /\ mpc = "menu"
    /\ ChoiceRead
    /\ choice = 3
    /\ log = <<"print_menu", "get_operation", "scan_num1", "scan_num2", "multiply">>

\* divide was called in this pass of the loop.
DivideCalled == Count({"divide"}) = 1

\* C10: divide(a, 0) reports the error, divides nothing and returns 0.0;
\* divide(a, b), b # 0, reports no error and returns the quotient a / b; a
\* division by zero does not end the program, which is back at the menu.
C10_Divide ==
    DivideCalled
        => /\ mpc = "menu"
           /\ num2 = 0
                => /\ Count({"div_error"}) = 1
                   /\ Count({"fdiv"}) = 0
                   /\ fres = FloatZero
           /\ num2 # 0
                => /\ Count({"div_error"}) = 0
                   /\ Count({"fdiv"}) = 1
                   /\ fres.den > 0
                   /\ fres.num * num2 = num1 * fres.den

\* divide(2, 0) was called and the calculator is back at the menu.
C10_Witness ==
    /\ DivideCalled
    /\ num1 = 2
    /\ num2 = 0
    /\ mpc = "menu"

====
